---- MODULE Spec2Model ----
(***************************************************************************)
(* Model of the EfficientNet configuration utilities of                    *)
(* modelscope/models/cv/face_emotion/efficient/utils.py:                   *)
(*   - round_filters (width scaling of channel counts),                    *)
(*   - BlockDecoder (block-string codec),                                  *)
(*   - efficientnet_params / efficientnet / get_model_params,              *)
(*   - the SAME-padding convolution and max-pool layers,                   *)
(*   - get_width_and_height_from_size, calculate_output_image_size,        *)
(*   - round_repeats (depth scaling of block repeats),                     *)
(* and of DatasetUploadManager.upload_dir of                               *)
(* modelscope/msdatasets/utils/upload_utils.py.                            *)
(*                                                                         *)
(* Python values that may be None or of several types are tagged records   *)
(* [t |-> type, v |-> payload].  A Python float is kept as an exact        *)
(* decimal: its payload is the number of thousandths (0.25 is 250).        *)
(* A Python str is a sequence of one-character strings.                    *)
(* An exception is a result [ok |-> FALSE, err |-> kind, val |-> NoneV].   *)
(***************************************************************************)
EXTENDS Integers, Sequences, FiniteSets, TLC

VARIABLES
    \* round_filters
    filters, global_params, rf_pc, rf_ret,
    \* BlockDecoder
    spec_in, head_pos, string_list, codec_pc, blocks_args, block_strings,
    \* efficientnet_params, get_model_params
    model_name, override_params, params_pc, coeffs, model_params,
    \* SAME-padding layers
    family, layer_image_size, sizes, dynamic, static, dynamic_out, static_out,
    \* get_width_and_height_from_size, calculate_output_image_size
    size_x, size_stride, size_pc, wh_ret, out_ret,
    \* round_repeats
    repeats, rr_pc, rr_ret,
    \* DatasetUploadManager.upload_dir
    up_dir, filter_hidden_files, num_processes, chunksize, files_list, taskqueue, workers, chunk_results, result, uploads, failures, up_pc, up_ret

roundVars == <<filters, global_params, rf_pc, rf_ret>>
codecVars == <<spec_in, head_pos, string_list, codec_pc, blocks_args, block_strings>>
paramsVars == <<model_name, override_params, params_pc, coeffs, model_params>>
padVars == <<family, layer_image_size, sizes, dynamic, static, dynamic_out, static_out>>
sizeVars == <<size_x, size_stride, size_pc, wh_ret, out_ret>>
repeatsVars == <<repeats, rr_pc, rr_ret>>
uploadVars == <<up_dir, filter_hidden_files, num_processes, chunksize, files_list, taskqueue, workers, chunk_results, result, uploads, failures, up_pc, up_ret>>
vars == <<roundVars, codecVars, paramsVars, padVars, sizeVars, repeatsVars, uploadVars>>
\* the state outside each group
notRound == <<codecVars, paramsVars, padVars, sizeVars, repeatsVars, uploadVars>>
notCodec == <<roundVars, paramsVars, padVars, sizeVars, repeatsVars, uploadVars>>
notParams == <<roundVars, codecVars, padVars, sizeVars, repeatsVars, uploadVars>>
notPad == <<roundVars, codecVars, paramsVars, sizeVars, repeatsVars, uploadVars>>
notSize == <<roundVars, codecVars, paramsVars, padVars, repeatsVars, uploadVars>>
notRepeats == <<roundVars, codecVars, paramsVars, padVars, sizeVars, uploadVars>>
notUpload == <<roundVars, codecVars, paramsVars, padVars, sizeVars, repeatsVars>>

(***************************************************************************)
(* Python values                                                           *)
(***************************************************************************)
NoneV == [t |-> "none", v |-> 0]
PyInt(n) == [t |-> "int", v |-> n]
PyFloat(milli) == [t |-> "float", v |-> milli]
PyBool(b) == [t |-> "bool", v |-> IF b THEN 1 ELSE 0]

\* Python truthiness of None, numbers and booleans
Truthy(x) == x.t # "none" /\ x.v # 0

Ok(val) == [ok |-> TRUE, err |-> "", val |-> val]
Raise(kind) == [ok |-> FALSE, err |-> kind, val |-> NoneV]

Max(a, b) == IF a >= b THEN a ELSE b
Min(a, b) == IF a <= b THEN a ELSE b

(***************************************************************************)
(* GlobalParams: the namedtuple and its all-None defaults                  *)
(***************************************************************************)
GlobalParamsFields ==
    {"width_coefficient", "depth_coefficient", "image_size", "dropout_rate",
     "num_classes", "batch_norm_momentum", "batch_norm_epsilon",
     "drop_connect_rate", "depth_divisor", "min_depth", "include_top"}

GlobalParamsDefaults == [f \in GlobalParamsFields |-> NoneV]

(***************************************************************************)
(* round_filters                                                           *)
(***************************************************************************)
\* filters * multiplier, in thousandths (the float product, exact decimal)
ScaledMilli(f, gp) == f * gp.width_coefficient.v

\* mutant: rounds down to the divisor instead of to the nearest multiple
round_filters_no_half(f, gp) ==
    IF ~Truthy(gp.width_coefficient) THEN f
    ELSE LET divisor == gp.depth_divisor.v
             min_depth == IF Truthy(gp.min_depth) THEN gp.min_depth.v ELSE divisor
             sm == ScaledMilli(f, gp)
             new_filters == Max(min_depth, ((sm \div 1000) \div divisor) * divisor)
         IN  IF new_filters * 10000 < 9 * sm THEN new_filters + divisor
             ELSE new_filters

\* mutant: omits the "below 90%" correction step
round_filters_no_bump(f, gp) ==
    IF ~Truthy(gp.width_coefficient) THEN f
    ELSE LET divisor == gp.depth_divisor.v
             min_depth == IF Truthy(gp.min_depth) THEN gp.min_depth.v ELSE divisor
             sm == ScaledMilli(f, gp)
         IN  Max(min_depth,
                 (((2 * sm + 1000 * divisor) \div 2000) \div divisor) * divisor)

round_filters(f, gp) ==
    LET multiplier == gp.width_coefficient IN
    IF ~Truthy(multiplier) THEN f
    ELSE LET divisor == gp.depth_divisor.v
             \* min_depth = min_depth or divisor
             min_depth == IF Truthy(gp.min_depth) THEN gp.min_depth.v ELSE divisor
             \* filters *= multiplier
             sm == ScaledMilli(f, gp)
             \* int(filters + divisor / 2): truncation of sm/1000 + divisor/2
             truncated == (2 * sm + 1000 * divisor) \div 2000
             new_filters == Max(min_depth, (truncated \div divisor) * divisor)
         IN  \* if new_filters < 0.9 * filters: new_filters += divisor
             IF new_filters * 10000 < 9 * sm THEN new_filters + divisor
             ELSE new_filters

(***************************************************************************)
(* Python str operations used by BlockDecoder                              *)
(***************************************************************************)
Digits == <<"0", "1", "2", "3", "4", "5", "6", "7", "8", "9">>
DigitChars == {"0", "1", "2", "3", "4", "5", "6", "7", "8", "9"}
IsDigit(c) == c \in DigitChars
DigitVal(c) ==
    CASE c = "0" -> 0 [] c = "1" -> 1 [] c = "2" -> 2 [] c = "3" -> 3
      [] c = "4" -> 4 [] c = "5" -> 5 [] c = "6" -> 6 [] c = "7" -> 7
      [] c = "8" -> 8 [] c = "9" -> 9

\* str.split(sep) for a one-character separator
RECURSIVE SplitFrom(_, _, _)
SplitFrom(s, sep, acc) ==
    IF s = <<>> THEN <<acc>>
    ELSE IF Head(s) = sep THEN <<acc>> \o SplitFrom(Tail(s), sep, <<>>)
    ELSE SplitFrom(Tail(s), sep, Append(acc, Head(s)))
Split(s, sep) == SplitFrom(s, sep, <<>>)

\* sep.join(parts)
RECURSIVE Join(_, _)
Join(parts, sep) ==
    IF parts = <<>> THEN <<>>
    ELSE IF Len(parts) = 1 THEN parts[1]
    ELSE parts[1] \o <<sep>> \o Join(Tail(parts), sep)

\* sub in s
Contains(s, sub) ==
    \E i \in 1..(Len(s) - Len(sub) + 1) : SubSeq(s, i, i + Len(sub) - 1) = sub

\* mutant: the pattern (\d+) in place of (\d.*): the value stops at the
\* first non-digit
re_split_digit_run(op) ==
    IF \E i \in 1..Len(op) : IsDigit(op[i])
    THEN LET first == CHOOSE i \in 1..Len(op) :
                         /\ IsDigit(op[i])
                         /\ \A j \in 1..(i - 1) : ~IsDigit(op[j])
             last == CHOOSE i \in first..Len(op) :
                         /\ \A j \in first..i : IsDigit(op[j])
                         /\ (i = Len(op) \/ ~IsDigit(op[i + 1]))
         IN  <<SubSeq(op, 1, first - 1), SubSeq(op, first, last),
               SubSeq(op, last + 1, Len(op))>>
    ELSE <<op>>

\* re.split(r'(\d.*)', op): the text before the first digit, the text from
\* the first digit to the end, and the empty remainder; [op] without a digit
re_split(op) ==
    IF \E i \in 1..Len(op) : IsDigit(op[i])
    THEN LET first == CHOOSE i \in 1..Len(op) :
                         /\ IsDigit(op[i])
                         /\ \A j \in 1..(i - 1) : ~IsDigit(op[j])
         IN  <<SubSeq(op, 1, first - 1), SubSeq(op, first, Len(op)), <<>>>>
    ELSE <<op>>

\* value of a run of decimal digits
RECURSIVE DigitsValue(_)
DigitsValue(s) ==
    IF s = <<>> THEN 0 ELSE 10 * DigitsValue(SubSeq(s, 1, Len(s) - 1)) + DigitVal(s[Len(s)])

AllDigits(s) == s # <<>> /\ \A i \in 1..Len(s) : IsDigit(s[i])

\* int(s) for the texts the grammar produces: decimal digits, else ValueError
int(s) == IF AllDigits(s) THEN Ok(DigitsValue(s)) ELSE Raise("ValueError")

\* float(s) for digits with an optional fraction of up to three digits, in
\* thousandths; any other text of the modelled alphabet is a ValueError
float(s) ==
    IF AllDigits(s) THEN Ok(PyFloat(1000 * DigitsValue(s)))
    ELSE IF \E p \in 2..(Len(s) - 1) :
               /\ s[p] = "."
               /\ AllDigits(SubSeq(s, 1, p - 1))
               /\ AllDigits(SubSeq(s, p + 1, Len(s)))
               /\ Len(s) - p <= 3
    THEN LET p == CHOOSE q \in 2..(Len(s) - 1) : s[q] = "."
             frac == SubSeq(s, p + 1, Len(s))
             scale == IF Len(frac) = 1 THEN 100 ELSE IF Len(frac) = 2 THEN 10 ELSE 1
         IN  Ok(PyFloat(1000 * DigitsValue(SubSeq(s, 1, p - 1))
                          + scale * DigitsValue(frac)))
    ELSE Raise("ValueError")

\* '%d' % n for n >= 0
RECURSIVE IntToStr(_)
IntToStr(n) ==
    IF n < 10 THEN <<Digits[n + 1]>>
    ELSE IntToStr(n \div 10) \o <<Digits[(n % 10) + 1]>>

\* str(x) of a float held in thousandths: shortest repr, at least one
\* fractional digit
FloatToStr(milli) ==
    LET whole == milli \div 1000
        frac == milli % 1000
        f3 == <<Digits[(frac \div 100) + 1], Digits[((frac \div 10) % 10) + 1],
                Digits[(frac % 10) + 1]>>
        keep == IF frac % 10 # 0 THEN 3 ELSE IF frac % 100 # 0 THEN 2 ELSE 1
    IN  IntToStr(whole) \o <<".">> \o SubSeq(f3, 1, keep)

(***************************************************************************)
(* BlockArgs and BlockDecoder                                              *)
(***************************************************************************)
BlockArgsFields ==
    {"num_repeat", "kernel_size", "stride", "expand_ratio", "input_filters",
     "output_filters", "se_ratio", "id_skip"}

NOSKIP == <<"n", "o", "s", "k", "i", "p">>

\* options[key] = value for every op that holds a digit; a later op
\* overwrites an earlier one with the same key
RECURSIVE ParseOptions(_)
ParseOptions(ops) ==
    IF ops = <<>> THEN <<>>
    ELSE LET before == ParseOptions(SubSeq(ops, 1, Len(ops) - 1))
             splits == re_split(ops[Len(ops)])
         IN  IF Len(splits) >= 2
             THEN [key \in (DOMAIN before) \cup {splits[1]} |->
                      IF key = splits[1] THEN splits[2] ELSE before[key]]
             ELSE before

\* int(options[key])
IntOption(options, key) ==
    IF key \in DOMAIN options THEN int(options[key]) ELSE Raise("KeyError")

\* the first exception raised by a sequence of evaluations, "" if none
RECURSIVE FirstError(_)
FirstError(results) ==
    IF results = <<>> THEN ""
    ELSE IF ~results[1].ok THEN results[1].err
    ELSE FirstError(Tail(results))

\* the assert of the "Check stride" step: TRUE passes, otherwise the
\* exception raised while evaluating or failing it
CheckStride(options) ==
    IF <<"s">> \in DOMAIN options /\ Len(options[<<"s">>]) = 1 THEN ""
    ELSE IF <<"s">> \notin DOMAIN options THEN "KeyError"
    ELSE IF Len(options[<<"s">>]) = 2 /\ options[<<"s">>][1] = options[<<"s">>][2]
    THEN ""
    ELSE "AssertionError"

\* the BlockArgs(...) construction: its arguments are evaluated in order
\* and the first exception among them is raised
block_args_of(r, k, s, e, i, o, se, id_skip) ==
    LET err == FirstError(<<[ok |-> r.ok, err |-> r.err],
                            [ok |-> k.ok, err |-> k.err],
                            [ok |-> e.ok, err |-> e.err],
                            [ok |-> i.ok, err |-> i.err],
                            [ok |-> o.ok, err |-> o.err],
                            [ok |-> se.ok, err |-> se.err]>>)
    IN  IF err # "" THEN Raise(err)
        ELSE Ok([num_repeat |-> r.val,
                 kernel_size |-> k.val,
                 stride |-> <<s>>,
                 expand_ratio |-> e.val,
                 input_filters |-> i.val,
                 output_filters |-> o.val,
                 se_ratio |-> se.val,
                 id_skip |-> id_skip])

\* float(options['se']) if 'se' in options else None
SeOption(options) ==
    IF <<"s", "e">> \in DOMAIN options THEN float(options[<<"s", "e">>])
    ELSE Ok(NoneV)

\* the stride check and the BlockArgs built from the parsed options
decode_options(options, check, id_skip) ==
    IF check # "" THEN Raise(check)
    ELSE block_args_of(IntOption(options, <<"r">>),
                       IntOption(options, <<"k">>),
                       \* int(options['s'][0]): the first character is a digit
                       DigitVal(options[<<"s">>][1]),
                       IntOption(options, <<"e">>),
                       IntOption(options, <<"i">>),
                       IntOption(options, <<"o">>),
                       SeOption(options),
                       id_skip)

check_and_decode(options, id_skip) ==
    decode_options(options, CheckStride(options), id_skip)

\* BlockDecoder._decode_block_string
decode_block_string(block_string) ==
    check_and_decode(ParseOptions(Split(block_string, "_")),
                     ~Contains(block_string, NOSKIP))

\* BlockDecoder._encode_block_string: block.strides is read, and BlockArgs
\* has no such field
encode_block_string(block) ==
    IF "strides" \notin DOMAIN block THEN Raise("AttributeError")
    ELSE IF Len(block.strides) < 2 THEN Raise("IndexError")
    ELSE IF block.se_ratio.t = "none" THEN Raise("TypeError")
    ELSE LET args == << <<"r">> \o IntToStr(block.num_repeat),
                        <<"k">> \o IntToStr(block.kernel_size),
                        <<"s">> \o IntToStr(block.strides[1])
                                \o IntToStr(block.strides[2]),
                        <<"e">> \o IntToStr(block.expand_ratio),
                        <<"i">> \o IntToStr(block.input_filters),
                        <<"o">> \o IntToStr(block.output_filters) >>
             se == IF 0 < block.se_ratio.v /\ block.se_ratio.v <= 1000
                   THEN << <<"s", "e">> \o FloatToStr(block.se_ratio.v) >>
                   ELSE <<>>
             noskip == IF block.id_skip = FALSE THEN <<NOSKIP>> ELSE <<>>
         IN  Ok(Join(args \o se \o noskip, "_"))

\* [f(x) for x in xs] where every f(x) returned
Values(results) == [n \in 1..Len(results) |-> results[n].val]

\* the exception of the first element that raised
FirstRaised(results) ==
    Raise(results[CHOOSE n \in 1..Len(results) :
                     /\ ~results[n].ok
                     /\ \A m \in 1..(n - 1) : results[m].ok].err)

RECURSIVE DecodeEach(_)
DecodeEach(strings) ==
    IF strings = <<>> THEN <<>>
    ELSE <<decode_block_string(Head(strings))>> \o DecodeEach(Tail(strings))

RECURSIVE EncodeEach(_)
EncodeEach(blocks) ==
    IF blocks = <<>> THEN <<>>
    ELSE <<encode_block_string(Head(blocks))>> \o EncodeEach(Tail(blocks))

\* the list a comprehension returns, or the first exception raised in it
Collect(results) ==
    IF \A n \in 1..Len(results) : results[n].ok THEN Ok(Values(results))
    ELSE FirstRaised(results)

\* BlockDecoder.decode
decode(string_list_) == Collect(DecodeEach(string_list_))

\* BlockDecoder.encode
encode(blocks_args_) == Collect(EncodeEach(blocks_args_))

\* the seven stage strings of efficientnet()
BlockStringTemplates ==
    << <<"r", "1", "_", "k", "3", "_", "s", "1", "1", "_", "e", "1", "_", "i", "3", "2", "_", "o", "1", "6", "_", "s", "e", "0", ".", "2", "5">>,
       <<"r", "2", "_", "k", "3", "_", "s", "2", "2", "_", "e", "6", "_", "i", "1", "6", "_", "o", "2", "4", "_", "s", "e", "0", ".", "2", "5">>,
       <<"r", "2", "_", "k", "5", "_", "s", "2", "2", "_", "e", "6", "_", "i", "2", "4", "_", "o", "4", "0", "_", "s", "e", "0", ".", "2", "5">>,
       <<"r", "3", "_", "k", "3", "_", "s", "2", "2", "_", "e", "6", "_", "i", "4", "0", "_", "o", "8", "0", "_", "s", "e", "0", ".", "2", "5">>,
       <<"r", "3", "_", "k", "5", "_", "s", "1", "1", "_", "e", "6", "_", "i", "8", "0", "_", "o", "1", "1", "2", "_", "s", "e", "0", ".", "2", "5">>,
       <<"r", "4", "_", "k", "5", "_", "s", "2", "2", "_", "e", "6", "_", "i", "1", "1", "2", "_", "o", "1", "9", "2", "_", "s", "e", "0", ".", "2", "5">>,
       <<"r", "1", "_", "k", "3", "_", "s", "1", "1", "_", "e", "6", "_", "i", "1", "9", "2", "_", "o", "3", "2", "0", "_", "s", "e", "0", ".", "2", "5">> >>

(***************************************************************************)
(* efficientnet_params, efficientnet, get_model_params                     *)
(***************************************************************************)
EFFICIENTNET == <<"e", "f", "f", "i", "c", "i", "e", "n", "t", "n", "e", "t">>

\* s.startswith(prefix)
startswith(s, prefix) ==
    Len(s) >= Len(prefix) /\ SubSeq(s, 1, Len(prefix)) = prefix

\* params_dict: name -> (width, depth, res, dropout); floats in thousandths
ParamsRows ==
    { <<"0", "b", 1000, 1000, 112, 200>>, <<"1", "b", 1000, 1100, 240, 200>>,
      <<"2", "b", 1100, 1200, 260, 300>>, <<"3", "b", 1200, 1400, 300, 300>>,
      <<"4", "b", 1400, 1800, 380, 400>>, <<"5", "b", 1600, 2200, 456, 400>>,
      <<"6", "b", 1800, 2600, 528, 500>>, <<"7", "b", 2000, 3100, 600, 500>>,
      <<"8", "b", 2200, 3600, 672, 500>>, <<"2", "l", 4300, 5300, 800, 500>> }
RowName(row) == EFFICIENTNET \o <<"-", row[2], row[1]>>
params_dict ==
    [name \in {RowName(row) : row \in ParamsRows} |->
        LET row == CHOOSE x \in ParamsRows : RowName(x) = name
        IN  <<PyFloat(row[3]), PyFloat(row[4]), PyInt(row[5]), PyFloat(row[6])>>]

\* efficientnet_params: params_dict[model_name]
efficientnet_params(name) ==
    IF name \in DOMAIN params_dict THEN Ok(params_dict[name])
    ELSE Raise("KeyError")

\* return blocks_args, global_params
architecture(decoded, params) ==
    IF ~decoded.ok THEN Raise(decoded.err)
    ELSE Ok([blocks_args |-> decoded.val, global_params |-> params])

\* efficientnet(...)
efficientnet(width_coefficient, depth_coefficient, image_size, dropout_rate, drop_connect_rate, num_classes, include_top) ==
    architecture(decode(BlockStringTemplates),
                 [width_coefficient |-> width_coefficient,
                  depth_coefficient |-> depth_coefficient,
                  image_size |-> image_size,
                  dropout_rate |-> dropout_rate,
                  num_classes |-> num_classes,
                  batch_norm_momentum |-> PyFloat(990),
                  batch_norm_epsilon |-> PyFloat(1),
                  drop_connect_rate |-> drop_connect_rate,
                  depth_divisor |-> PyInt(8),
                  min_depth |-> NoneV,
                  include_top |-> include_top])

\* a dict argument: None, or [t |-> "dict", v |-> key -> value]
PyDict(f) == [t |-> "dict", v |-> f]
DictTruthy(x) == x.t = "dict" /\ DOMAIN x.v # {}

\* mutant: unknown field names are dropped silently
replace_known_fields(record, kwds) ==
    Ok([f \in DOMAIN record |-> IF f \in DOMAIN kwds THEN kwds[f] ELSE record[f]])

\* namedtuple._replace(**kwds): unknown field names raise ValueError
replace(record, kwds) ==
    IF DOMAIN kwds \subseteq DOMAIN record
    THEN Ok([f \in DOMAIN record |-> IF f \in DOMAIN kwds THEN kwds[f] ELSE record[f]])
    ELSE Raise("ValueError")

\* global_params = global_params._replace(**override_params)
with_global_params(arch, replaced) ==
    IF ~replaced.ok THEN Raise(replaced.err)
    ELSE Ok([arch.val EXCEPT !.global_params = replaced.val])

\* if override_params: ...
override_global_params(arch, overrides) ==
    IF ~arch.ok \/ ~DictTruthy(overrides) THEN arch
    ELSE with_global_params(arch, replace(arch.val.global_params, overrides.v))

\* w, d, s, p = efficientnet_params(model_name);
\* efficientnet(width_coefficient=w, depth_coefficient=d, dropout_rate=p,
\*              image_size=s), then the overrides
build_model_params(c, overrides) ==
    IF ~c.ok THEN Raise(c.err)
    ELSE override_global_params(
             efficientnet(c.val[1], c.val[2], c.val[3], c.val[4],
                          PyFloat(200), PyInt(1000), PyBool(TRUE)),
             overrides)

\* get_model_params(model_name, override_params)
get_model_params(name, overrides) ==
    IF ~startswith(name, EFFICIENTNET) THEN Raise("NotImplementedError")
    ELSE build_model_params(efficientnet_params(name), overrides)

(***************************************************************************)
(* SAME-padding layers                                                     *)
(***************************************************************************)
PyTuple(seq) == [t |-> "tuple", v |-> seq]

\* mutant: floor where the layers take math.ceil
floor_div(a, b) == a \div b

\* math.ceil(a / b) for positive ints
ceil_div(a, b) == (a + b - 1) \div b

\* mutant: the dilation is left out of the window extent
pad_amount_no_dilation(i, k, s, d) ==
    Max((ceil_div(i, s) - 1) * s + (k - 1) + 1 - i, 0)

\* oh = math.ceil(ih / sh); pad_h = max((oh - 1) * sh + (kh - 1) * dh + 1 - ih, 0)
pad_amount(i, k, s, d) ==
    Max((ceil_div(i, s) - 1) * s + (k - 1) * d + 1 - i, 0)

\* [pad_w // 2, pad_w - pad_w // 2, pad_h // 2, pad_h - pad_h // 2]:
\* left, right, top, bottom
pad_list(pad_h, pad_w) ==
    <<pad_w \div 2, pad_w - pad_w \div 2, pad_h \div 2, pad_h - pad_h \div 2>>

\* mutant: height and width taken the other way round
image_wh(size) ==
    IF size.t = "int" THEN <<size.v, size.v>> ELSE <<size.v[2], size.v[1]>>

\* ih, iw = (image_size, image_size) if isinstance(image_size, int) else image_size
image_hw(size) ==
    IF size.t = "int" THEN <<size.v, size.v>> ELSE size.v

\* size of x after F.pad / ZeroPad2d with [left, right, top, bottom]
padded_size(x, pads) == <<x[1] + pads[3] + pads[4], x[2] + pads[1] + pads[2]>>

\* output length of the windowed operation (F.conv2d, F.max_pool2d without
\* ceil_mode) along one axis, with its own padding p
window_out(n, k, s, p, d) == (n + 2 * p - d * (k - 1) - 1) \div s + 1

\* F.conv2d / F.max_pool2d on an input of size x: the output size, or the
\* error raised when the window does not fit
windowed(layer, x) ==
    IF \E a \in 1..2 :
          x[a] + 2 * layer.padding[a]
              < layer.dilation[a] * (layer.kernel_size[a] - 1) + 1
    THEN Raise("RuntimeError")
    ELSE Ok(<<window_out(x[1], layer.kernel_size[1], layer.stride[1],
                         layer.padding[1], layer.dilation[1]),
              window_out(x[2], layer.kernel_size[2], layer.stride[2],
                         layer.padding[2], layer.dilation[2])>>)

Identity == [kind |-> "Identity", pads |-> <<0, 0, 0, 0>>]
ZeroPad2d(pads) == [kind |-> "ZeroPad2d", pads |-> pads]
NoStaticPadding == [kind |-> "none", pads |-> <<0, 0, 0, 0>>]

Layer(cls, k, s, d, static_padding) ==
    [cls |-> cls, kernel_size |-> <<k, k>>, stride |-> <<s, s>>,
     dilation |-> <<d, d>>, padding |-> <<0, 0>>,
     static_padding |-> static_padding]

\* the padding module a static layer builds from its declared image size
static_padding_for(pad_h, pad_w) ==
    IF pad_h > 0 \/ pad_w > 0 THEN ZeroPad2d(pad_list(pad_h, pad_w))
    ELSE Identity

static_padding_of(hw, k, s, d) ==
    static_padding_for(pad_amount(hw[1], k, s, d), pad_amount(hw[2], k, s, d))

\* Conv2dDynamicSamePadding.__init__
Conv2dDynamicSamePadding(k, s, d) ==
    Layer("Conv2dDynamicSamePadding", k, s, d, NoStaticPadding)

\* Conv2dStaticSamePadding.__init__
Conv2dStaticSamePadding(k, s, d, image_size) ==
    Layer("Conv2dStaticSamePadding", k, s, d,
          static_padding_of(image_hw(image_size), k, s, d))

\* MaxPool2dDynamicSamePadding.__init__
MaxPool2dDynamicSamePadding(k, s, d) ==
    Layer("MaxPool2dDynamicSamePadding", k, s, d, NoStaticPadding)

\* MaxPool2dStaticSamePadding.__init__
MaxPool2dStaticSamePadding(k, s, d, image_size) ==
    Layer("MaxPool2dStaticSamePadding", k, s, d,
          static_padding_of(image_hw(image_size), k, s, d))

\* get_same_padding_conv2d(image_size)(..., kernel_size, stride, dilation)
get_same_padding_conv2d(image_size, k, s, d) ==
    IF image_size.t = "none" THEN Conv2dDynamicSamePadding(k, s, d)
    ELSE Conv2dStaticSamePadding(k, s, d, image_size)

\* get_same_padding_maxPool2d(image_size)(kernel_size, stride, dilation)
get_same_padding_maxPool2d(image_size, k, s, d) ==
    IF image_size.t = "none" THEN MaxPool2dDynamicSamePadding(k, s, d)
    ELSE MaxPool2dStaticSamePadding(k, s, d, image_size)

\* what one forward call did: the input size, the zeros added on the left,
\* right, top and bottom, and the result of the windowed operation
Call(layer, x, pads) ==
    [called |-> TRUE, x |-> x, pads |-> pads,
     out |-> windowed(layer, padded_size(x, pads))]
NoCall == [called |-> FALSE, x |-> <<0, 0>>, pads |-> <<0, 0, 0, 0>>,
           out |-> Raise("")]

\* F.pad only when pad_h > 0 or pad_w > 0
dynamic_pads(pad_h, pad_w) ==
    IF pad_h > 0 \/ pad_w > 0 THEN pad_list(pad_h, pad_w) ELSE <<0, 0, 0, 0>>

\* Conv2dDynamicSamePadding.forward
Conv2dDynamicSamePadding_forward(self, x) ==
    Call(self, x,
         dynamic_pads(pad_amount(x[1], self.kernel_size[1], self.stride[1],
                                 self.dilation[1]),
                      pad_amount(x[2], self.kernel_size[2], self.stride[2],
                                 self.dilation[2])))

\* Conv2dStaticSamePadding.forward
Conv2dStaticSamePadding_forward(self, x) ==
    Call(self, x, self.static_padding.pads)

\* MaxPool2dDynamicSamePadding.forward
MaxPool2dDynamicSamePadding_forward(self, x) ==
    Call(self, x,
         dynamic_pads(pad_amount(x[1], self.kernel_size[1], self.stride[1],
                                 self.dilation[1]),
                      pad_amount(x[2], self.kernel_size[2], self.stride[2],
                                 self.dilation[2])))

\* MaxPool2dStaticSamePadding.forward
MaxPool2dStaticSamePadding_forward(self, x) ==
    Call(self, x, self.static_padding.pads)

(***************************************************************************)
(* Image-size helpers                                                      *)
(***************************************************************************)
PyList(seq) == [t |-> "list", v |-> seq]
PyStr(chars) == [t |-> "str", v |-> chars]

\* isinstance(x, (list, tuple))
IsListOrTuple(x) == x.t \in {"list", "tuple"}

get_width_and_height_from_size(x) ==
    IF x.t = "int" THEN Ok(PyTuple(<<x.v, x.v>>))
    ELSE IF IsListOrTuple(x) THEN Ok(x)
    ELSE Raise("TypeError")

\* stride = stride if isinstance(stride, int) else stride[0]
first_stride(stride) ==
    IF stride.t = "int" THEN Ok(stride.v)
    ELSE IF ~(IsListOrTuple(stride) \/ stride.t = "str") THEN Raise("TypeError")
    ELSE IF Len(stride.v) = 0 THEN Raise("IndexError")
    ELSE Ok(stride.v[1])

\* the two ceilings and the returned list, once height, width and stride
\* are known
output_image_size(hw, s) ==
    IF ~s.ok THEN s
    ELSE Ok(PyList(<<ceil_div(hw[1], s.val), ceil_div(hw[2], s.val)>>))

\* image_height, image_width = get_width_and_height_from_size(...)
unpack_and_calculate(size, stride) ==
    IF ~size.ok THEN size
    ELSE IF Len(size.val.v) # 2 THEN Raise("ValueError")
    ELSE output_image_size(size.val.v, first_stride(stride))

calculate_output_image_size(input_image_size, stride) ==
    IF input_image_size.t = "none" THEN Ok(NoneV)
    ELSE unpack_and_calculate(
             get_width_and_height_from_size(input_image_size), stride)

(***************************************************************************)
(* round_repeats                                                           *)
(***************************************************************************)
\* mutant: the product truncated by int() without math.ceil
round_repeats_truncated(r, gp) ==
    LET multiplier == gp.depth_coefficient
    IN  IF ~Truthy(multiplier) THEN r ELSE (multiplier.v * r) \div 1000

\* repeats if not multiplier else int(math.ceil(multiplier * repeats))
round_repeats(r, gp) ==
    LET multiplier == gp.depth_coefficient
    IN  IF ~Truthy(multiplier) THEN r ELSE (multiplier.v * r + 999) \div 1000

(***************************************************************************)
(* DatasetUploadManager.upload_dir (msdatasets/utils/upload_utils.py)      *)
(***************************************************************************)
\* a file under local_dir_path: the directory os.walk reports it in, given
\* relative to local_dir_path, and its name
File(rel, file_name) == [rel |-> rel, file_name |-> file_name]

\* os.path.join of two parts
path_join(a, b) == IF a = <<>> THEN b ELSE IF b = <<>> THEN a \o <<"/">> ELSE a \o <<"/">> \o b

LOCAL_DIR == <<"d">>
OBJECT_DIR == <<"o">>

\* os.path.join(root, file_name), root being local_dir_path joined with rel
local_file_path_of(f) ==
    path_join(IF f.rel = <<>> THEN LOCAL_DIR ELSE path_join(LOCAL_DIR, f.rel),
              f.file_name)

\* os.path.join(object_dir_name,
\*              root.replace(local_dir_path, '', 1).strip('/'), file_name)
object_name_of(f) ==
    IF f.rel = <<>> THEN path_join(OBJECT_DIR, f.file_name)
    ELSE path_join(path_join(OBJECT_DIR, f.rel), f.file_name)

\* mutant: hidden files are skipped whether or not the flag is set
skipped_always(file_name, filter) == startswith(file_name, <<".">>)

\* if filter_hidden_files and file_name.startswith('.'): continue
skipped(file_name, filter) == filter /\ startswith(file_name, <<".">>)

\* the loop over os.walk: the (object_name, local_file_path) of every file
\* that is not skipped, in the order of the walk
RECURSIVE list_files(_, _, _)
list_files(walk, present, filter) ==
    IF walk = <<>> THEN <<>>
    ELSE IF Head(walk) \in present /\ ~skipped(Head(walk).file_name, filter)
    THEN <<<<object_name_of(Head(walk)), local_file_path_of(Head(walk))>>>>
             \o list_files(Tail(walk), present, filter)
    ELSE list_files(Tail(walk), present, filter)

\* the tasks pool.imap makes of the list: chunk i holds up to chunksize
\* consecutive arguments
RECURSIVE get_tasks(_, _, _)
get_tasks(items, size, i) ==
    IF items = <<>> THEN <<>>
    ELSE IF Len(items) <= size THEN <<[i |-> i, chunk |-> items]>>
    ELSE <<[i |-> i, chunk |-> SubSeq(items, 1, size)]>>
             \o get_tasks(SubSeq(items, size + 1, Len(items)), size, i + 1)

Idle == [task |-> [i |-> 0, chunk |-> <<>>], pos |-> 0]
Running(task) == [task |-> task, pos |-> 1]

\* the result a worker posts after an upload: the chunk fails with the
\* first upload that raises, is done after its last upload, and goes on
\* otherwise
after_upload(rs, w, raised) ==
    IF raised THEN [rs EXCEPT ![w.task.i] = "raised"]
    ELSE IF w.pos = Len(w.task.chunk) THEN [rs EXCEPT ![w.task.i] = "done"]
    ELSE rs

worker_after_upload(w, raised) ==
    IF raised \/ w.pos = Len(w.task.chunk) THEN Idle
    ELSE [w EXCEPT !.pos = w.pos + 1]

\* the index of the next chunk the result iterator hands to list()
next_chunk(collected, size) == (Len(collected) + size - 1) \div size + 1
\* the items of chunk k of n items
chunk_len(k, n, size) == Min(size, n - (k - 1) * size)
Nones(n) == [j \in 1..n |-> NoneV]

(***************************************************************************)
(* Inputs of the round_filters runs                                        *)
(***************************************************************************)
MaxFilters == 64
MaxMinDepth == 17

\* width coefficients of the params_dict table, in thousandths
TableWidths == {1000, 1100, 1200, 1400, 1600, 1800, 2000, 2200, 4300}
WidthSettings == {NoneV, PyFloat(0)} \cup {PyFloat(w) : w \in TableWidths}
DepthDivisors == {8, 5}
MinDepthSettings == {NoneV} \cup {PyInt(m) : m \in 0..MaxMinDepth}

RoundFilters ==
    /\ rf_pc = "start"
    /\ rf_ret' = round_filters(filters, global_params)
    /\ rf_pc' = "done"
    /\ UNCHANGED <<filters, global_params, notRound>>

NextRound == RoundFilters

(***************************************************************************)
(* Inputs of the BlockDecoder runs: one block string written from chosen   *)
(* tokens, placed before or after a prefix of the stage templates          *)
(***************************************************************************)
MaxRepeat == 2
MaxTail == 2

RequiredKeys == {"r", "k", "s", "e", "i", "o"}
\* a number as written in a block string, with the value it denotes
KernelTexts == {[text |-> <<"3">>, val |-> 3], [text |-> <<"5">>, val |-> 5]}
ExpandTexts == {[text |-> <<"6">>, val |-> 6]}
InputTexts == {[text |-> <<"3", "2">>, val |-> 32]}
OutputTexts == {[text |-> <<"1", "6">>, val |-> 16],
                [text |-> <<"1", "1", "2">>, val |-> 112]}
StrideTexts == {<<"1">>, <<"2">>, <<"1", "1">>, <<"2", "2">>, <<"1", "2">>,
                <<"2", "1">>}
SeTexts == {[text |-> <<>>, val |-> NoneV],
            [text |-> <<"0", ".", "2", "5">>, val |-> PyFloat(250)],
            [text |-> <<"1">>, val |-> PyFloat(1000)]}

BlockSpecs ==
    [r : 1..MaxRepeat, k : KernelTexts, s : StrideTexts, e : ExpandTexts,
     i : InputTexts, o : OutputTexts, se : SeTexts, noskip : BOOLEAN,
     missing : RequiredKeys \cup {"none"}]

\* the block string a choice of tokens is written as
BlockStringOf(b) ==
    LET tok(key, text) == IF b.missing = key THEN <<>> ELSE << <<key>> \o text >>
    IN  Join(tok("r", IntToStr(b.r)) \o tok("k", b.k.text) \o tok("s", b.s)
             \o tok("e", b.e.text) \o tok("i", b.i.text) \o tok("o", b.o.text)
             \o (IF b.se.text = <<>> THEN <<>> ELSE << <<"s", "e">> \o b.se.text >>)
             \o (IF b.noskip THEN <<NOSKIP>> ELSE <<>>),
             "_")

Decode ==
    /\ codec_pc = "start"
    /\ blocks_args' = decode(string_list)
    /\ codec_pc' = "decoded"
    /\ UNCHANGED <<spec_in, head_pos, string_list, block_strings, notCodec>>

Encode ==
    /\ codec_pc = "decoded"
    /\ blocks_args.ok
    /\ block_strings' = encode(blocks_args.val)
    /\ codec_pc' = "encoded"
    /\ UNCHANGED <<spec_in, head_pos, string_list, blocks_args, notCodec>>

NextCodec == Decode \/ Encode

(***************************************************************************)
(* Inputs of the model-parameter runs                                      *)
(***************************************************************************)
MaxOverrides == 2

ModelNames ==
    (DOMAIN params_dict)
    \cup { EFFICIENTNET \o <<"-", "b", "9">>,
           EFFICIENTNET,
           <<"e", "f", "f", "i", "c", "i", "e", "n", "t">>,
           <<"r", "e", "s", "n", "e", "t">>,
           <<"x">> \o EFFICIENTNET \o <<"-", "b", "0">> }

OverrideKeys == GlobalParamsFields \cup {"bogus"}
OverrideValues == {PyInt(7), NoneV}
OverrideSettings ==
    {NoneV} \cup
    { PyDict(f) : f \in UNION { [keys -> OverrideValues] :
                      keys \in {k \in SUBSET OverrideKeys :
                                   Cardinality(k) <= MaxOverrides} } }

\* efficientnet_params(model_name)
EfficientnetParams ==
    /\ params_pc = "start"
    /\ coeffs' = efficientnet_params(model_name)
    /\ params_pc' = "looked_up"
    /\ UNCHANGED <<model_name, override_params, model_params, notParams>>

\* get_model_params(model_name, override_params)
GetModelParams ==
    /\ params_pc = "looked_up"
    /\ model_params' = get_model_params(model_name, override_params)
    /\ params_pc' = "built"
    /\ UNCHANGED <<model_name, override_params, coeffs, notParams>>

NextParams == EfficientnetParams \/ GetModelParams

(***************************************************************************)
(* Inputs of the padding-layer runs                                        *)
(***************************************************************************)
MaxKernel == 3
MaxStride == 2
MaxDilation == 2
\* input sizes of the runs of one layer, and of the runs of a static and a
\* dynamic layer side by side
MaxDim == 5
MaxPairDim == 3

NoLayer == Layer("none", 0, 0, 0, NoStaticPadding)

\* (height, width) up to n in each direction
SizesUpTo(n) == {<<h, w>> : h \in 1..n, w \in 1..n}
\* the small sizes and the 224 x 224 image
SizesOfOne == SizesUpTo(MaxDim) \cup {<<224, 224>>}
\* an image size is an int or a pair
ImageSizesOver(hws) ==
    {PyInt(hw[1]) : hw \in {x \in hws : x[1] = x[2]}} \cup {PyTuple(hw) : hw \in hws}

ForwardConv2dDynamic ==
    /\ dynamic.cls = "Conv2dDynamicSamePadding"
    /\ \E x \in sizes :
          dynamic_out' = Conv2dDynamicSamePadding_forward(dynamic, x)
    /\ UNCHANGED <<family, layer_image_size, sizes, dynamic, static, static_out, notPad>>

ForwardConv2dStatic ==
    /\ static.cls = "Conv2dStaticSamePadding"
    /\ \E x \in sizes :
          static_out' = Conv2dStaticSamePadding_forward(static, x)
    /\ UNCHANGED <<family, layer_image_size, sizes, dynamic, static, dynamic_out, notPad>>

ForwardMaxPool2dDynamic ==
    /\ dynamic.cls = "MaxPool2dDynamicSamePadding"
    /\ \E x \in sizes :
          dynamic_out' = MaxPool2dDynamicSamePadding_forward(dynamic, x)
    /\ UNCHANGED <<family, layer_image_size, sizes, dynamic, static, static_out, notPad>>

ForwardMaxPool2dStatic ==
    /\ static.cls = "MaxPool2dStaticSamePadding"
    /\ \E x \in sizes :
          static_out' = MaxPool2dStaticSamePadding_forward(static, x)
    /\ UNCHANGED <<family, layer_image_size, sizes, dynamic, static, dynamic_out, notPad>>

NextPad ==
    \/ ForwardConv2dDynamic
    \/ ForwardConv2dStatic
    \/ ForwardMaxPool2dDynamic
    \/ ForwardMaxPool2dStatic

(***************************************************************************)
(* Inputs of the image-size runs                                           *)
(***************************************************************************)
MaxSide == 3
MaxSizeStride == 2
MaxSizeLen == 3

SeqsUpTo(n, vals) == UNION {[1..k -> vals] : k \in 0..n}
\* sizes: None, ints, lists and tuples of 0..MaxSizeLen ints, a float, a str
SizeInputs ==
    {NoneV, PyFloat(1500), PyStr(<<"7">>)}
        \cup {PyInt(n) : n \in 1..MaxSide}
        \cup {PyList(q) : q \in SeqsUpTo(MaxSizeLen, 1..MaxSide)}
        \cup {PyTuple(q) : q \in SeqsUpTo(MaxSizeLen, 1..MaxSide)}
\* strides: ints, lists and tuples of 1 or 2 ints
StrideInputs ==
    {PyInt(n) : n \in 1..MaxSizeStride}
        \cup {PyList(q) : q \in SeqsUpTo(2, 1..MaxSizeStride) \ {<<>>}}
        \cup {PyTuple(q) : q \in SeqsUpTo(2, 1..MaxSizeStride) \ {<<>>}}

GetWidthAndHeightFromSize ==
    /\ size_pc = "start"
    /\ wh_ret' = get_width_and_height_from_size(size_x)
    /\ size_pc' = "measured"
    /\ UNCHANGED <<size_x, size_stride, out_ret, notSize>>

CalculateOutputImageSize ==
    /\ size_pc = "measured"
    /\ out_ret' = calculate_output_image_size(size_x, size_stride)
    /\ size_pc' = "done"
    /\ UNCHANGED <<size_x, size_stride, wh_ret, notSize>>

NextSize == GetWidthAndHeightFromSize \/ CalculateOutputImageSize

(***************************************************************************)
(* Inputs of the round_repeats runs                                        *)
(***************************************************************************)
MaxRoundRepeats == 20
\* the depth coefficients of params_dict, and None and 0.0
TableDepths == {row[4] : row \in ParamsRows}
DepthSettings == {NoneV, PyFloat(0)} \cup {PyFloat(d) : d \in TableDepths}

RoundRepeats ==
    /\ rr_pc = "start"
    /\ rr_ret' = round_repeats(repeats, global_params)
    /\ rr_pc' = "done"
    /\ UNCHANGED <<repeats, notRepeats>>

NextRepeats == RoundRepeats

(***************************************************************************)
(* Inputs of the upload_dir runs                                           *)
(***************************************************************************)
MaxFiles == 4
MaxProcesses == 2
MaxChunksize == 2

\* the files a directory may hold, in the order os.walk meets them: plain
\* and hidden files at the top, in a sub-directory and in a hidden directory
WalkOrder ==
    << File(<<>>, <<"a">>), File(<<>>, <<".", "b">>),
       File(<<"s">>, <<"c">>), File(<<"s">>, <<".", "e">>),
       File(<<".", "h">>, <<"f">>) >>
Universe == {WalkOrder[j] : j \in 1..Len(WalkOrder)}
Directories == {fs \in SUBSET Universe : Cardinality(fs) <= MaxFiles}

Walk ==
    /\ up_pc = "start"
    /\ files_list' = list_files(WalkOrder, up_dir, filter_hidden_files)
    /\ up_pc' = "walked"
    /\ UNCHANGED <<up_dir, filter_hidden_files, num_processes, chunksize, taskqueue, workers, chunk_results, result, uploads, failures, up_ret, notUpload>>

\* with ThreadPool(processes=num_processes) as pool: pool.imap(...)
Imap ==
    /\ up_pc = "walked"
    /\ workers' = [w \in 1..num_processes |-> Idle]
    /\ taskqueue' = get_tasks(files_list, chunksize, 1)
    /\ chunk_results' = [k \in 1..Len(get_tasks(files_list, chunksize, 1)) |-> "pending"]
    /\ up_pc' = "mapping"
    /\ UNCHANGED <<up_dir, filter_hidden_files, num_processes, chunksize, files_list, result, uploads, failures, up_ret, notUpload>>

\* a worker thread takes the next task
WorkerGet(w) ==
    /\ w \in DOMAIN workers
    /\ workers[w] = Idle
    /\ taskqueue # <<>>
    /\ workers' = [workers EXCEPT ![w] = Running(Head(taskqueue))]
    /\ taskqueue' = Tail(taskqueue)
    /\ UNCHANGED <<up_dir, filter_hidden_files, num_processes, chunksize, files_list, chunk_results, result, uploads, failures, up_pc, up_ret, notUpload>>

\* a worker thread calls run_upload on the next argument of its chunk; the
\* upload returns or raises
RunUpload(w) ==
    /\ w \in DOMAIN workers
    /\ workers[w] # Idle
    /\ LET args == workers[w].task.chunk[workers[w].pos]
       IN  /\ uploads' = [uploads EXCEPT ![args[2]] = @ + 1]
           /\ \E raised \in BOOLEAN :
                /\ failures' = IF raised THEN failures \cup {args[2]} ELSE failures
                /\ chunk_results' = after_upload(chunk_results, workers[w], raised)
                /\ workers' = [workers EXCEPT ![w] = worker_after_upload(@, raised)]
    /\ UNCHANGED <<up_dir, filter_hidden_files, num_processes, chunksize, files_list, taskqueue, result, up_pc, up_ret, notUpload>>

\* list(tqdm(...)) takes the next chunk's chunk_results in order; a chunk that
\* raised ends upload_dir with the exception and the pool is terminated
CollectResults ==
    /\ up_pc = "mapping"
    /\ next_chunk(result, chunksize) \in DOMAIN chunk_results
    /\ chunk_results[next_chunk(result, chunksize)] # "pending"
    /\ IF chunk_results[next_chunk(result, chunksize)] = "done"
       THEN /\ result' = result \o Nones(chunk_len(next_chunk(result, chunksize), Len(files_list), chunksize))
            /\ UNCHANGED <<taskqueue, up_pc>>
       ELSE /\ up_pc' = "raised"
            /\ taskqueue' = <<>>
            /\ UNCHANGED result
    /\ UNCHANGED <<up_dir, filter_hidden_files, num_processes, chunksize, files_list, workers, chunk_results, uploads, failures, up_ret, notUpload>>

\* return len(result)
Return ==
    /\ up_pc = "mapping"
    /\ next_chunk(result, chunksize) \notin DOMAIN chunk_results
    /\ up_ret' = Len(result)
    /\ up_pc' = "returned"
    /\ UNCHANGED <<up_dir, filter_hidden_files, num_processes, chunksize, files_list, taskqueue, workers, chunk_results, result, uploads, failures, notUpload>>

MainThread == Walk \/ Imap \/ CollectResults \/ Return
WorkerThread(w) == WorkerGet(w) \/ RunUpload(w)

NextUpload ==
    \/ Walk
    \/ Imap
    \/ \E w \in 1..MaxProcesses : WorkerGet(w)
    \/ \E w \in 1..MaxProcesses : RunUpload(w)
    \/ CollectResults
    \/ Return

(***************************************************************************)
(* Specifications: one per group of operations; the state of the other     *)
(* groups stays at rest                                                    *)
(***************************************************************************)
InitRound ==
    /\ filters \in 0..MaxFilters
    /\ \E w \in WidthSettings, d \in DepthDivisors, m \in MinDepthSettings :
          global_params = [GlobalParamsDefaults EXCEPT
                              !.width_coefficient = w,
                              !.depth_divisor = PyInt(d),
                              !.min_depth = m]
    /\ rf_pc = "start"
    /\ rf_ret = 0
    \* BlockDecoder at rest
    /\ spec_in = <<>>
    /\ head_pos = 0
    /\ string_list = <<>>
    /\ codec_pc = "idle"
    /\ blocks_args = Raise("")
    /\ block_strings = Raise("")
    \* model parameters at rest
    /\ model_name = <<>>
    /\ override_params = NoneV
    /\ params_pc = "idle"
    /\ coeffs = Raise("")
    /\ model_params = Raise("")
    \* padding layers at rest
    /\ family = "none"
    /\ layer_image_size = NoneV
    /\ sizes = {}
    /\ dynamic = NoLayer
    /\ static = NoLayer
    /\ dynamic_out = NoCall
    /\ static_out = NoCall
    \* image-size helpers at rest
    /\ size_x = NoneV
    /\ size_stride = NoneV
    /\ size_pc = "idle"
    /\ wh_ret = Raise("")
    /\ out_ret = Raise("")
    \* round_repeats at rest
    /\ repeats = 0
    /\ rr_pc = "idle"
    /\ rr_ret = 0
    \* upload_dir at rest
    /\ up_dir = {}
    /\ filter_hidden_files = FALSE
    /\ num_processes = 0
    /\ chunksize = 0
    /\ files_list = <<>>
    /\ taskqueue = <<>>
    /\ workers = <<>>
    /\ chunk_results = <<>>
    /\ result = <<>>
    /\ uploads = <<>>
    /\ failures = {}
    /\ up_pc = "idle"
    /\ up_ret = 0

InitCodec ==
    /\ \E b \in BlockSpecs, n \in 0..MaxTail, first \in BOOLEAN :
          /\ spec_in = b
          /\ head_pos = IF first THEN 1 ELSE n + 1
          /\ string_list =
                IF first
                THEN <<BlockStringOf(b)>> \o SubSeq(BlockStringTemplates, 1, n)
                ELSE SubSeq(BlockStringTemplates, 1, n) \o <<BlockStringOf(b)>>
    /\ codec_pc = "start"
    /\ blocks_args = Raise("")
    /\ block_strings = Raise("")
    \* round_filters at rest
    /\ filters = 0
    /\ global_params = GlobalParamsDefaults
    /\ rf_pc = "idle"
    /\ rf_ret = 0
    \* model parameters at rest
    /\ model_name = <<>>
    /\ override_params = NoneV
    /\ params_pc = "idle"
    /\ coeffs = Raise("")
    /\ model_params = Raise("")
    \* padding layers at rest
    /\ family = "none"
    /\ layer_image_size = NoneV
    /\ sizes = {}
    /\ dynamic = NoLayer
    /\ static = NoLayer
    /\ dynamic_out = NoCall
    /\ static_out = NoCall
    \* image-size helpers at rest
    /\ size_x = NoneV
    /\ size_stride = NoneV
    /\ size_pc = "idle"
    /\ wh_ret = Raise("")
    /\ out_ret = Raise("")
    \* round_repeats at rest
    /\ repeats = 0
    /\ rr_pc = "idle"
    /\ rr_ret = 0
    \* upload_dir at rest
    /\ up_dir = {}
    /\ filter_hidden_files = FALSE
    /\ num_processes = 0
    /\ chunksize = 0
    /\ files_list = <<>>
    /\ taskqueue = <<>>
    /\ workers = <<>>
    /\ chunk_results = <<>>
    /\ result = <<>>
    /\ uploads = <<>>
    /\ failures = {}
    /\ up_pc = "idle"
    /\ up_ret = 0

InitParams ==
    /\ model_name \in ModelNames
    /\ override_params \in OverrideSettings
    /\ params_pc = "start"
    /\ coeffs = Raise("")
    /\ model_params = Raise("")
    \* BlockDecoder at rest
    /\ spec_in = <<>>
    /\ head_pos = 0
    /\ string_list = <<>>
    /\ codec_pc = "idle"
    /\ blocks_args = Raise("")
    /\ block_strings = Raise("")
    \* round_filters at rest
    /\ filters = 0
    /\ global_params = GlobalParamsDefaults
    /\ rf_pc = "idle"
    /\ rf_ret = 0
    \* padding layers at rest
    /\ family = "none"
    /\ layer_image_size = NoneV
    /\ sizes = {}
    /\ dynamic = NoLayer
    /\ static = NoLayer
    /\ dynamic_out = NoCall
    /\ static_out = NoCall
    \* image-size helpers at rest
    /\ size_x = NoneV
    /\ size_stride = NoneV
    /\ size_pc = "idle"
    /\ wh_ret = Raise("")
    /\ out_ret = Raise("")
    \* round_repeats at rest
    /\ repeats = 0
    /\ rr_pc = "idle"
    /\ rr_ret = 0
    \* upload_dir at rest
    /\ up_dir = {}
    /\ filter_hidden_files = FALSE
    /\ num_processes = 0
    /\ chunksize = 0
    /\ files_list = <<>>
    /\ taskqueue = <<>>
    /\ workers = <<>>
    /\ chunk_results = <<>>
    /\ result = <<>>
    /\ uploads = <<>>
    /\ failures = {}
    /\ up_pc = "idle"
    /\ up_ret = 0

\* one layer, built by the factory for an image size that may be None
InitPad ==
    /\ family \in {"conv2d", "maxPool2d"}
    /\ layer_image_size \in {NoneV} \cup ImageSizesOver(SizesOfOne)
    /\ sizes = SizesOfOne
    /\ \E k \in 1..MaxKernel, s \in 1..MaxStride, d \in 1..MaxDilation :
          LET layer == IF family = "conv2d"
                       THEN get_same_padding_conv2d(layer_image_size, k, s, d)
                       ELSE get_same_padding_maxPool2d(layer_image_size, k, s, d)
          IN  /\ dynamic = IF layer_image_size.t = "none" THEN layer ELSE NoLayer
              /\ static = IF layer_image_size.t = "none" THEN NoLayer ELSE layer
    /\ dynamic_out = NoCall
    /\ static_out = NoCall
    \* BlockDecoder at rest
    /\ spec_in = <<>>
    /\ head_pos = 0
    /\ string_list = <<>>
    /\ codec_pc = "idle"
    /\ blocks_args = Raise("")
    /\ block_strings = Raise("")
    \* round_filters at rest
    /\ filters = 0
    /\ global_params = GlobalParamsDefaults
    /\ rf_pc = "idle"
    /\ rf_ret = 0
    \* model parameters at rest
    /\ model_name = <<>>
    /\ override_params = NoneV
    /\ params_pc = "idle"
    /\ coeffs = Raise("")
    /\ model_params = Raise("")
    \* image-size helpers at rest
    /\ size_x = NoneV
    /\ size_stride = NoneV
    /\ size_pc = "idle"
    /\ wh_ret = Raise("")
    /\ out_ret = Raise("")
    \* round_repeats at rest
    /\ repeats = 0
    /\ rr_pc = "idle"
    /\ rr_ret = 0
    \* upload_dir at rest
    /\ up_dir = {}
    /\ filter_hidden_files = FALSE
    /\ num_processes = 0
    /\ chunksize = 0
    /\ files_list = <<>>
    /\ taskqueue = <<>>
    /\ workers = <<>>
    /\ chunk_results = <<>>
    /\ result = <<>>
    /\ uploads = <<>>
    /\ failures = {}
    /\ up_pc = "idle"
    /\ up_ret = 0

\* a static layer for a declared image size and a dynamic layer, built by
\* the factory with the same kernel and stride and the default dilation
InitPadPair ==
    /\ family \in {"conv2d", "maxPool2d"}
    /\ layer_image_size \in ImageSizesOver(SizesUpTo(MaxPairDim))
    /\ sizes = SizesUpTo(MaxPairDim)
    /\ \E k \in 1..MaxKernel, s \in 1..MaxStride, d \in {1} :
          /\ dynamic = IF family = "conv2d"
                       THEN get_same_padding_conv2d(NoneV, k, s, d)
                       ELSE get_same_padding_maxPool2d(NoneV, k, s, d)
          /\ static = IF family = "conv2d"
                      THEN get_same_padding_conv2d(layer_image_size, k, s, d)
                      ELSE get_same_padding_maxPool2d(layer_image_size, k, s, d)
    /\ dynamic_out = NoCall
    /\ static_out = NoCall
    \* BlockDecoder at rest
    /\ spec_in = <<>>
    /\ head_pos = 0
    /\ string_list = <<>>
    /\ codec_pc = "idle"
    /\ blocks_args = Raise("")
    /\ block_strings = Raise("")
    \* round_filters at rest
    /\ filters = 0
    /\ global_params = GlobalParamsDefaults
    /\ rf_pc = "idle"
    /\ rf_ret = 0
    \* model parameters at rest
    /\ model_name = <<>>
    /\ override_params = NoneV
    /\ params_pc = "idle"
    /\ coeffs = Raise("")
    /\ model_params = Raise("")
    \* image-size helpers at rest
    /\ size_x = NoneV
    /\ size_stride = NoneV
    /\ size_pc = "idle"
    /\ wh_ret = Raise("")
    /\ out_ret = Raise("")
    \* round_repeats at rest
    /\ repeats = 0
    /\ rr_pc = "idle"
    /\ rr_ret = 0
    \* upload_dir at rest
    /\ up_dir = {}
    /\ filter_hidden_files = FALSE
    /\ num_processes = 0
    /\ chunksize = 0
    /\ files_list = <<>>
    /\ taskqueue = <<>>
    /\ workers = <<>>
    /\ chunk_results = <<>>
    /\ result = <<>>
    /\ uploads = <<>>
    /\ failures = {}
    /\ up_pc = "idle"
    /\ up_ret = 0

InitSize ==
    /\ size_x \in SizeInputs
    /\ size_stride \in StrideInputs
    /\ size_pc = "start"
    /\ wh_ret = Raise("")
    /\ out_ret = Raise("")
    \* BlockDecoder at rest
    /\ spec_in = <<>>
    /\ head_pos = 0
    /\ string_list = <<>>
    /\ codec_pc = "idle"
    /\ blocks_args = Raise("")
    /\ block_strings = Raise("")
    \* round_filters at rest
    /\ filters = 0
    /\ global_params = GlobalParamsDefaults
    /\ rf_pc = "idle"
    /\ rf_ret = 0
    \* model parameters at rest
    /\ model_name = <<>>
    /\ override_params = NoneV
    /\ params_pc = "idle"
    /\ coeffs = Raise("")
    /\ model_params = Raise("")
    \* round_repeats at rest
    /\ repeats = 0
    /\ rr_pc = "idle"
    /\ rr_ret = 0
    \* padding layers at rest
    /\ family = "none"
    /\ layer_image_size = NoneV
    /\ sizes = {}
    /\ dynamic = NoLayer
    /\ static = NoLayer
    /\ dynamic_out = NoCall
    /\ static_out = NoCall
    \* upload_dir at rest
    /\ up_dir = {}
    /\ filter_hidden_files = FALSE
    /\ num_processes = 0
    /\ chunksize = 0
    /\ files_list = <<>>
    /\ taskqueue = <<>>
    /\ workers = <<>>
    /\ chunk_results = <<>>
    /\ result = <<>>
    /\ uploads = <<>>
    /\ failures = {}
    /\ up_pc = "idle"
    /\ up_ret = 0

InitRepeats ==
    /\ repeats \in 0..MaxRoundRepeats
    /\ \E d \in DepthSettings :
          global_params = [GlobalParamsDefaults EXCEPT !.depth_coefficient = d]
    /\ rr_pc = "start"
    /\ rr_ret = 0
    \* round_filters at rest
    /\ filters = 0
    /\ rf_pc = "idle"
    /\ rf_ret = 0
    \* BlockDecoder at rest
    /\ spec_in = <<>>
    /\ head_pos = 0
    /\ string_list = <<>>
    /\ codec_pc = "idle"
    /\ blocks_args = Raise("")
    /\ block_strings = Raise("")
    \* model parameters at rest
    /\ model_name = <<>>
    /\ override_params = NoneV
    /\ params_pc = "idle"
    /\ coeffs = Raise("")
    /\ model_params = Raise("")
    \* image-size helpers at rest
    /\ size_x = NoneV
    /\ size_stride = NoneV
    /\ size_pc = "idle"
    /\ wh_ret = Raise("")
    /\ out_ret = Raise("")
    \* padding layers at rest
    /\ family = "none"
    /\ layer_image_size = NoneV
    /\ sizes = {}
    /\ dynamic = NoLayer
    /\ static = NoLayer
    /\ dynamic_out = NoCall
    /\ static_out = NoCall
    \* upload_dir at rest
    /\ up_dir = {}
    /\ filter_hidden_files = FALSE
    /\ num_processes = 0
    /\ chunksize = 0
    /\ files_list = <<>>
    /\ taskqueue = <<>>
    /\ workers = <<>>
    /\ chunk_results = <<>>
    /\ result = <<>>
    /\ uploads = <<>>
    /\ failures = {}
    /\ up_pc = "idle"
    /\ up_ret = 0

InitUpload ==
    /\ up_dir \in Directories
    /\ filter_hidden_files \in BOOLEAN
    /\ num_processes \in 1..MaxProcesses
    /\ chunksize \in 1..MaxChunksize
    /\ files_list = <<>>
    /\ taskqueue = <<>>
    /\ workers = <<>>
    /\ chunk_results = <<>>
    /\ result = <<>>
    /\ uploads = [p \in {local_file_path_of(f) : f \in Universe} |-> 0]
    /\ failures = {}
    /\ up_pc = "start"
    /\ up_ret = 0
    \* BlockDecoder at rest
    /\ spec_in = <<>>
    /\ head_pos = 0
    /\ string_list = <<>>
    /\ codec_pc = "idle"
    /\ blocks_args = Raise("")
    /\ block_strings = Raise("")
    \* model parameters at rest
    /\ model_name = <<>>
    /\ override_params = NoneV
    /\ params_pc = "idle"
    /\ coeffs = Raise("")
    /\ model_params = Raise("")
    \* padding layers at rest
    /\ family = "none"
    /\ layer_image_size = NoneV
    /\ sizes = {}
    /\ dynamic = NoLayer
    /\ static = NoLayer
    /\ dynamic_out = NoCall
    /\ static_out = NoCall
    \* image-size helpers at rest
    /\ size_x = NoneV
    /\ size_stride = NoneV
    /\ size_pc = "idle"
    /\ wh_ret = Raise("")
    /\ out_ret = Raise("")
    \* round_repeats at rest
    /\ repeats = 0
    /\ rr_pc = "idle"
    /\ rr_ret = 0
    \* round_filters at rest
    /\ filters = 0
    /\ global_params = GlobalParamsDefaults
    /\ rf_pc = "idle"
    /\ rf_ret = 0

SpecRound == InitRound /\ [][NextRound]_vars

SpecCodec == InitCodec /\ [][NextCodec]_vars

SpecParams == InitParams /\ [][NextParams]_vars

SpecPad == InitPad /\ [][NextPad]_vars

SpecPadPair == InitPadPair /\ [][NextPad]_vars

SpecSize == InitSize /\ [][NextSize]_vars

SpecRepeats == InitRepeats /\ [][NextRepeats]_vars

\* every thread that can take a step eventually takes one
UploadFairness ==
    /\ WF_vars(MainThread)
    /\ \A w \in 1..MaxProcesses : WF_vars(WorkerThread(w))

SpecUpload == InitUpload /\ [][NextUpload]_vars /\ UploadFairness

(***************************************************************************)
(* Claims on round_filters                                                 *)
(***************************************************************************)
RfWidth == global_params.width_coefficient
RfDivisor == global_params.depth_divisor.v
RfMinDepth == global_params.min_depth
RfWidthSet == RfWidth.t # "none" /\ RfWidth.v # 0
\* min_depth or divisor
RfEffectiveMin == IF RfMinDepth.t = "none" \/ RfMinDepth.v = 0
                  THEN RfDivisor ELSE RfMinDepth.v
\* floor((scaled + divisor/2) / divisor) * divisor, over the rationals
RfNearest == ((2 * filters * RfWidth.v + 1000 * RfDivisor)
                 \div (2000 * RfDivisor)) * RfDivisor
RfBase == Max(RfEffectiveMin, RfNearest)
\* x < 0.9 * scaled
RfBelowNinety(x) == x * 10000 < 9 * filters * RfWidth.v

\* C4: round_filters returns filters unchanged when width_coefficient is
\* unset or zero; otherwise it returns
\* max(effective_min, floor((scaled + divisor/2)/divisor)*divisor), plus one
\* divisor when that value is below 0.9 * scaled.
C4_RoundFiltersFormula ==
    rf_pc = "done" =>
        IF ~RfWidthSet THEN rf_ret = filters
        ELSE rf_ret = IF RfBelowNinety(RfBase) THEN RfBase + RfDivisor ELSE RfBase

\* a scaled run in which the 90% correction added one divisor
C4_Witness ==
    /\ rf_pc = "done"
    /\ RfWidthSet
    /\ RfBelowNinety(RfBase)
    /\ rf_ret = RfBase + RfDivisor

\* C5 as stated: with width_coefficient set, the result is a multiple of
\* depth_divisor and at least 0.9 * scaled, whatever min_depth is.
C5_AlignedForEveryMinDepth ==
    (rf_pc = "done" /\ RfWidthSet) =>
        /\ rf_ret % RfDivisor = 0
        /\ ~RfBelowNinety(rf_ret)

\* C5 amended: with width_coefficient set, the result is at least
\* 0.9 * scaled for every min_depth, and it is a multiple of depth_divisor
\* whenever min_depth is absent (or zero) or itself a multiple of
\* depth_divisor.
C5_AlignedWhenMinDepthAligned ==
    (rf_pc = "done" /\ RfWidthSet) =>
        /\ ~RfBelowNinety(rf_ret)
        /\ (RfEffectiveMin % RfDivisor = 0 => rf_ret % RfDivisor = 0)

\* a scaled run with an explicit, divisor-aligned min_depth that decides the
\* result
C5_Witness ==
    /\ rf_pc = "done"
    /\ RfWidthSet
    /\ RfMinDepth.t = "int" /\ RfMinDepth.v > RfDivisor
    /\ RfMinDepth.v % RfDivisor = 0
    /\ rf_ret = RfMinDepth.v

(***************************************************************************)
(* Claims on BlockDecoder                                                  *)
(***************************************************************************)
\* the exception decode raises on purpose for a block string it rejects:
\* the failed assert of the stride check
InvalidSpec == "AssertionError"

HeadStrideUnequal == Len(spec_in.s) = 2 /\ spec_in.s[1] # spec_in.s[2]
HeadValid == spec_in.missing = "none" /\ ~HeadStrideUnequal
HeadInvalid ==
    \/ spec_in.missing # "none"
    \/ (spec_in.missing # "s" /\ HeadStrideUnequal)

\* C1: encoding the blocks that decode produced yields strings that decode,
\* element by element and in the same order, to the same blocks.
C1_EncodeDecodeRoundTrip ==
    codec_pc = "encoded" =>
        /\ block_strings.ok
        /\ decode(block_strings.val) = blocks_args

\* C2: decoding a block string whose stride token has two unequal digits, or
\* that lacks one of the keys r, k, s, e, i, o, fails with the one
\* invalid-spec error, whichever of the two is wrong.
C2_SingleInvalidSpecError ==
    (codec_pc = "decoded" /\ HeadInvalid) =>
        /\ ~blocks_args.ok
        /\ blocks_args.err = InvalidSpec

\* position in string_list of the n-th stage template
TemplatePos(n) == IF head_pos = 1 THEN n + 1 ELSE n

\* C3: for a valid block string, decode yields the integers written after
\* r, k, e, i, o, the one-element stride list holding the first stride digit,
\* the se value or None, and id_skip = False exactly when the noskip token is
\* present; the first two stage templates decode to the documented records.
C3_DecodeFields ==
    (codec_pc \in {"decoded", "encoded"} /\ HeadValid) =>
        /\ blocks_args.ok
        /\ Len(blocks_args.val) = Len(string_list)
        /\ LET b == blocks_args.val[head_pos]
           IN  /\ DOMAIN b = BlockArgsFields
               /\ b.num_repeat = spec_in.r
               /\ b.kernel_size = spec_in.k.val
               /\ b.stride = IF spec_in.s[1] = "1" THEN <<1>> ELSE <<2>>
               /\ b.expand_ratio = spec_in.e.val
               /\ b.input_filters = spec_in.i.val
               /\ b.output_filters = spec_in.o.val
               /\ b.se_ratio = spec_in.se.val
               /\ b.id_skip = ~spec_in.noskip
        /\ Len(string_list) >= 2 =>
              blocks_args.val[TemplatePos(1)] =
                  [num_repeat |-> 1, kernel_size |-> 3, stride |-> <<1>>,
                   expand_ratio |-> 1, input_filters |-> 32,
                   output_filters |-> 16, se_ratio |-> PyFloat(250),
                   id_skip |-> TRUE]
        /\ Len(string_list) >= 3 =>
              blocks_args.val[TemplatePos(2)].stride = <<2>>

\* a valid string with a two-digit stride, an se token and noskip, decoded
\* after two stage templates
C3_Witness ==
    /\ codec_pc = "decoded"
    /\ HeadValid
    /\ spec_in.s = <<"2", "2">>
    /\ spec_in.se.val = PyFloat(250)
    /\ spec_in.noskip
    /\ head_pos = 3
    /\ blocks_args.ok
    /\ blocks_args.val[3].id_skip = FALSE

(***************************************************************************)
(* Claims on efficientnet_params and get_model_params                      *)
(***************************************************************************)
\* the exception get_model_params raises on purpose for a name it does not
\* know ("model name is not pre-defined")
UnknownModel == "NotImplementedError"

KnownNames ==
    {EFFICIENTNET \o <<"-", "b", d>> :
        d \in {"0", "1", "2", "3", "4", "5", "6", "7", "8"}}
    \cup {EFFICIENTNET \o <<"-", "l", "2">>}

\* (width, depth, resolution, dropout) of the ten variants
ExpectedCoefficients(name) ==
    LET v == name[Len(name)]
        l2 == name[Len(name) - 1] = "l"
        row == CASE l2 -> <<4300, 5300, 800, 500>>
                 [] ~l2 /\ v = "0" -> <<1000, 1000, 112, 200>>
                 [] ~l2 /\ v = "1" -> <<1000, 1100, 240, 200>>
                 [] ~l2 /\ v = "2" -> <<1100, 1200, 260, 300>>
                 [] ~l2 /\ v = "3" -> <<1200, 1400, 300, 300>>
                 [] ~l2 /\ v = "4" -> <<1400, 1800, 380, 400>>
                 [] ~l2 /\ v = "5" -> <<1600, 2200, 456, 400>>
                 [] ~l2 /\ v = "6" -> <<1800, 2600, 528, 500>>
                 [] ~l2 /\ v = "7" -> <<2000, 3100, 600, 500>>
                 [] ~l2 /\ v = "8" -> <<2200, 3600, 672, 500>>
    IN  <<PyFloat(row[1]), PyFloat(row[2]), PyInt(row[3]), PyFloat(row[4])>>

\* C6: the coefficient lookup returns the table tuple for each of the ten
\* names and fails with the unknown-model error for every other name, and
\* get_model_params fails with that same error for a name without the
\* prefix and for a prefixed name that is not in the table.
C6_SingleUnknownModelError ==
    params_pc = "built" =>
        IF model_name \in KnownNames
        THEN coeffs.ok /\ coeffs.val = ExpectedCoefficients(model_name)
        ELSE /\ ~coeffs.ok
             /\ ~model_params.ok
             /\ coeffs.err = UnknownModel
             /\ model_params.err = UnknownModel

OverriddenFields ==
    IF override_params.t = "dict" THEN DOMAIN override_params.v ELSE {}

Stage(r, k, s, e, i, o) ==
    [num_repeat |-> r, kernel_size |-> k, stride |-> <<s>>, expand_ratio |-> e,
     input_filters |-> i, output_filters |-> o, se_ratio |-> PyFloat(250),
     id_skip |-> TRUE]

\* the seven stages of the template, in network order
ExpectedStages ==
    << Stage(1, 3, 1, 1, 32, 16), Stage(2, 3, 2, 6, 16, 24),
       Stage(2, 5, 2, 6, 24, 40), Stage(3, 3, 2, 6, 40, 80),
       Stage(3, 5, 1, 6, 80, 112), Stage(4, 5, 2, 6, 112, 192),
       Stage(1, 3, 1, 6, 192, 320) >>

\* the GlobalParams of a model before overrides: its looked-up coefficients
\* and the fixed defaults
DerivedParams ==
    [width_coefficient |-> coeffs.val[1],
     depth_coefficient |-> coeffs.val[2],
     image_size |-> coeffs.val[3],
     dropout_rate |-> coeffs.val[4],
     num_classes |-> PyInt(1000),
     batch_norm_momentum |-> PyFloat(990),
     batch_norm_epsilon |-> PyFloat(1),
     drop_connect_rate |-> PyFloat(200),
     depth_divisor |-> PyInt(8),
     min_depth |-> NoneV,
     include_top |-> PyBool(TRUE)]

\* C7: for a known model, get_model_params returns the seven decoded stages
\* in template order and a GlobalParams whose overridden fields hold the
\* override values and whose other fields keep the derived values; an
\* override key that is not a GlobalParams field makes the call fail.
C7_OverridesReplaceFields ==
    (params_pc = "built" /\ model_name \in KnownNames) =>
        IF OverriddenFields \subseteq GlobalParamsFields
        THEN /\ model_params.ok
             /\ model_params.val.blocks_args = ExpectedStages
             /\ DOMAIN model_params.val.global_params = GlobalParamsFields
             /\ \A f \in GlobalParamsFields :
                   model_params.val.global_params[f] =
                       IF f \in OverriddenFields THEN override_params.v[f]
                       ELSE DerivedParams[f]
        ELSE ~model_params.ok

\* a known model built with two overridden fields, one of them set to a
\* new number of classes
C7_Witness ==
    /\ params_pc = "built"
    /\ model_name \in KnownNames
    /\ Cardinality(OverriddenFields) = 2
    /\ "num_classes" \in OverriddenFields
    /\ model_params.ok
    /\ model_params.val.global_params.num_classes = PyInt(7)
    /\ model_params.val.global_params.depth_divisor = PyInt(8)

(***************************************************************************)
(* Claims on the SAME-padding layers                                       *)
(***************************************************************************)
\* o is ceil(i / s)
IsCeil(o, i, s) == (o - 1) * s < i /\ i <= o * s

\* before and after are the two halves of the SAME padding of an axis of
\* length i under kernel k, stride s and dilation d
SamePaddingOfAxis(before, after, i, k, s, d) ==
    \E o \in 1..i :
       /\ IsCeil(o, i, s)
       /\ LET need == (o - 1) * s + (k - 1) * d + 1 - i
              pad == IF need > 0 THEN need ELSE 0
          IN  /\ 2 * before <= pad /\ pad <= 2 * before + 1
              /\ after = pad - before
              /\ before + after = pad
              /\ after - before \in {0, 1}

\* pads (left, right, top, bottom) are the SAME padding of an input of size
\* hw (height, width) for the layer
SamePaddingOf(pads, hw, layer) ==
    /\ SamePaddingOfAxis(pads[3], pads[4], hw[1], layer.kernel_size[1],
                         layer.stride[1], layer.dilation[1])
    /\ SamePaddingOfAxis(pads[1], pads[2], hw[2], layer.kernel_size[2],
                         layer.stride[2], layer.dilation[2])

\* the (height, width) the static layer was declared for
DeclaredSize ==
    IF layer_image_size.t = "int"
    THEN <<layer_image_size.v, layer_image_size.v>>
    ELSE layer_image_size.v

IsExample224(hw, layer) ==
    /\ hw = <<224, 224>>
    /\ layer.kernel_size = <<3, 3>>
    /\ layer.stride = <<2, 2>>
    /\ layer.dilation = <<1, 1>>

\* C8: every padding layer (dynamic and static, convolution and max-pool)
\* pads each axis by pad = max((out-1)*stride + (kernel-1)*dilation + 1 - in, 0)
\* with out = ceil(in/stride), floor(pad/2) zeros before and the rest after,
\* so that before + after = pad and after - before is 0 or 1; in is the size
\* of the call's input for a dynamic layer and the declared image size for a
\* static one.  For in = 224, kernel 3, stride 2, dilation 1 the padding is
\* 0 before and 1 after on each axis.
C8_SamePaddingPerAxis ==
    /\ dynamic_out.called =>
          /\ SamePaddingOf(dynamic_out.pads, dynamic_out.x, dynamic)
          /\ IsExample224(dynamic_out.x, dynamic) =>
                dynamic_out.pads = <<0, 1, 0, 1>>
    /\ static_out.called =>
          /\ SamePaddingOf(static_out.pads, DeclaredSize, static)
          /\ IsExample224(DeclaredSize, static) =>
                static_out.pads = <<0, 1, 0, 1>>

C8_Witness ==
    /\ dynamic_out.called
    /\ IsExample224(dynamic_out.x, dynamic)
    /\ dynamic_out.pads = <<0, 1, 0, 1>>
    /\ dynamic_out.out = Ok(<<112, 112>>)

StaticClassOf == [conv2d |-> "Conv2dStaticSamePadding", maxPool2d |-> "MaxPool2dStaticSamePadding"]
DynamicClassOf == [conv2d |-> "Conv2dDynamicSamePadding", maxPool2d |-> "MaxPool2dDynamicSamePadding"]

SameOperation(a, b) ==
    /\ a.kernel_size = b.kernel_size
    /\ a.stride = b.stride
    /\ a.dilation = b.dilation
    /\ a.padding = b.padding

\* C9: over any sequence of forward calls the static layer applies the
\* padding computed at construction from the declared image size, whatever
\* the size of the input, and the dynamic layer the padding computed from the
\* size of the call's input; when both were last called on an input of the
\* declared size they added the same zeros on all four sides and handed the
\* same padded input to the same operation.  The factory built the dynamic
\* class for no image size and the static class, bound to the image size,
\* otherwise.
C9_StaticAndDynamicAgree ==
    /\ dynamic.cls = DynamicClassOf[family]
    /\ dynamic.static_padding.kind = "none"
    /\ static.cls = StaticClassOf[family]
    /\ static.static_padding.kind \in {"ZeroPad2d", "Identity"}
    /\ SamePaddingOf(static.static_padding.pads, DeclaredSize, static)
    /\ SameOperation(static, dynamic)
    /\ static_out.called => static_out.pads = static.static_padding.pads
    /\ dynamic_out.called =>
          SamePaddingOf(dynamic_out.pads, dynamic_out.x, dynamic)
    /\ (/\ static_out.called
        /\ dynamic_out.called
        /\ static_out.x = DeclaredSize
        /\ dynamic_out.x = DeclaredSize) =>
          /\ static_out.pads = dynamic_out.pads
          /\ static_out.out = dynamic_out.out

C9_Witness ==
    /\ static_out.called
    /\ dynamic_out.called
    /\ static_out.x = DeclaredSize
    /\ dynamic_out.x = DeclaredSize
    /\ DeclaredSize[1] # DeclaredSize[2]
    /\ static.kernel_size = <<3, 3>>
    /\ static.stride = <<2, 2>>
    /\ static_out.pads = dynamic_out.pads
    /\ static_out.pads[1] # static_out.pads[3]
    /\ static_out.out.ok

\* the length the windowed operation returns along an axis of length i
\* padded by before and after, and the claim that it is ceil(i / s)
OutputOfAxis(o, before, after, i, k, s, d) ==
    /\ i + before + after >= (k - 1) * d + 1
    /\ o = (i + before + after - ((k - 1) * d + 1)) \div s + 1
    /\ IsCeil(o, i, s)

OutputIsCeil(call, layer) ==
    /\ call.out.ok
    /\ OutputOfAxis(call.out.val[1], call.pads[3], call.pads[4], call.x[1],
                    layer.kernel_size[1], layer.stride[1], layer.dilation[1])
    /\ OutputOfAxis(call.out.val[2], call.pads[1], call.pads[2], call.x[2],
                    layer.kernel_size[2], layer.stride[2], layer.dilation[2])

\* C10: for in >= 1, kernel >= 1, stride >= 1 and dilation >= 1, once the
\* SAME padding of the input is applied the windowed operation, with no
\* padding of its own, returns floor((in + pad - ((kernel-1)*dilation + 1))
\* / stride) + 1 along each axis, which is ceil(in/stride), also when the
\* padding was clamped to 0.
C10_OutputIsCeilOfInputOverStride ==
    /\ dynamic_out.called => OutputIsCeil(dynamic_out, dynamic)
    /\ (static_out.called /\ static_out.x = DeclaredSize) =>
          OutputIsCeil(static_out, static)

\* a call where the padding of the height was clamped to 0
C10_Witness ==
    /\ dynamic_out.called
    /\ dynamic.padding = <<0, 0>>
    /\ dynamic_out.pads[3] + dynamic_out.pads[4] = 0
    /\ \E o \in 1..dynamic_out.x[1] :
          /\ IsCeil(o, dynamic_out.x[1], dynamic.stride[1])
          /\ (o - 1) * dynamic.stride[1]
                + (dynamic.kernel_size[1] - 1) * dynamic.dilation[1] + 1
                - dynamic_out.x[1] < 0
          /\ dynamic_out.out = Ok(<<o, dynamic_out.out.val[2]>>)

(***************************************************************************)
(* Claims on the image-size helpers                                        *)
(***************************************************************************)
InvalidArgument == "TypeError"

IsPair(x) == IsListOrTuple(x) /\ Len(x.v) = 2
\* the stride of each axis: an int serves both, a sequence gives its own
StrideOfAxis(stride, a) ==
    IF stride.t = "int" THEN stride.v
    ELSE IF Len(stride.v) = 1 THEN stride.v[1] ELSE stride.v[a]
HeightWidthOf(x) == IF x.t = "int" THEN <<x.v, x.v>> ELSE x.v

\* C11: calculate_output_image_size(input_size, stride) returns None for
\* input_size None and otherwise [ceil(height/stride_h), ceil(width/stride_w)]
\* for an input size given as an int or an (H, W) pair, an int stride serving
\* both axes and a sequence stride giving each axis its own value.
C11_OutputSizePerAxis ==
    (size_pc = "done" /\ (size_x.t \in {"none", "int"} \/ IsPair(size_x))) =>
        IF size_x.t = "none" THEN out_ret = Ok(NoneV)
        ELSE /\ out_ret.ok
             /\ out_ret.val.t = "list"
             /\ Len(out_ret.val.v) = 2
             /\ IsCeil(out_ret.val.v[1], HeightWidthOf(size_x)[1],
                       StrideOfAxis(size_stride, 1))
             /\ IsCeil(out_ret.val.v[2], HeightWidthOf(size_x)[2],
                       StrideOfAxis(size_stride, 2))

\* C12: get_width_and_height_from_size(x) returns (x, x) for an int x, x
\* itself for a 2-element sequence, and fails with InvalidArgument for every
\* other x, sequences of another length included.
C12_OnlyIntOrPairAccepted ==
    size_pc # "start" =>
        IF size_x.t = "int" THEN wh_ret = Ok(PyTuple(<<size_x.v, size_x.v>>))
        ELSE IF IsPair(size_x) THEN wh_ret = Ok(size_x)
        ELSE wh_ret = Raise(InvalidArgument)

(***************************************************************************)
(* Claims on round_repeats                                                 *)
(***************************************************************************)
RrDepth == global_params.depth_coefficient
\* n is ceil(depth_coefficient * repeats)
RrIsCeil(n) ==
    /\ 1000 * (n - 1) < RrDepth.v * repeats
    /\ RrDepth.v * repeats <= 1000 * n
RrNotSmaller ==
    (RrDepth.t # "none" /\ RrDepth.v >= 1000 /\ repeats >= 1) =>
        rr_ret >= repeats

\* C13 as stated: round_repeats returns repeats unchanged when
\* depth_coefficient is unset, and otherwise the integer
\* ceil(depth_coefficient * repeats), never smaller than repeats for a
\* depth_coefficient >= 1 of the model table and repeats >= 1.
C13_CeilUnlessUnset ==
    rr_pc = "done" =>
        /\ IF RrDepth.t = "none" THEN rr_ret = repeats ELSE RrIsCeil(rr_ret)
        /\ RrNotSmaller

\* C13 as amended: round_repeats returns repeats unchanged when
\* depth_coefficient is unset or zero, and otherwise the integer
\* ceil(depth_coefficient * repeats), never smaller than repeats for a
\* depth_coefficient >= 1 of the model table and repeats >= 1.
C13_CeilUnlessUnsetOrZero ==
    rr_pc = "done" =>
        /\ IF RrDepth.t = "none" \/ RrDepth.v = 0 THEN rr_ret = repeats
           ELSE RrIsCeil(rr_ret)
        /\ RrNotSmaller

\* a product that is not a whole number is rounded up
C13_Witness ==
    /\ rr_pc = "done"
    /\ RrDepth = PyFloat(1100)
    /\ repeats = 3
    /\ rr_ret = 4

(***************************************************************************)
(* Claims on upload_dir                                                    *)
(***************************************************************************)
\* a file of the directory that the hidden-file filter does not exclude
Included(f) ==
    f \in up_dir /\ ~(filter_hidden_files /\ f.file_name[1] = ".")
UploadCalls(f) == uploads[local_file_path_of(f)]
UploadDirEnded == up_pc \in {"returned", "raised"}

\* C14: for any directory contents, num_processes >= 1, chunksize >= 1 and
\* interleaving of the worker threads, upload_dir never uploads a file twice
\* and never uploads a file that is absent or excluded by the hidden-file
\* filter; it ends, and unless an upload raised it returns, having uploaded
\* every other file exactly once, the number of those files.
C14_OneUploadPerFile ==
    /\ [](\A f \in Universe :
             /\ UploadCalls(f) <= 1
             /\ ~Included(f) => UploadCalls(f) = 0)
    /\ [](up_pc = "returned" =>
             /\ \A f \in Universe : Included(f) => UploadCalls(f) = 1
             /\ up_ret = Cardinality({f \in Universe : Included(f)}))
    /\ [](up_pc = "raised" => failures # {})
    /\ <>UploadDirEnded

\* two workers, chunks of two, a hidden file left out, three files uploaded
C14_Witness ==
    /\ up_pc = "returned"
    /\ up_ret = 3
    /\ filter_hidden_files
    /\ \E f \in up_dir : ~Included(f)
    /\ num_processes = 2
    /\ chunksize = 2
    /\ Len(chunk_results) = 2

====
